---- MODULE Spec2Model ----
(***************************************************************************)
(* Model of SecurityPolicy (src/src/security/policy.rs): the allowlist and  *)
(* injection guard, the risk classifier, the catastrophic predicate and     *)
(* validate_command_execution (Spec); is_path_allowed and                   *)
(* is_resolved_path_allowed over std::path on Unix (PathSpec); the          *)
(* ActionTracker behind record_action and is_rate_limited, called by one    *)
(* task (TrackerSpec), cloned (CloneSpec), called by several tasks          *)
(* (ConcurrentSpec), by tasks that ask is_rate_limited first (LimitedSpec)  *)
(* and by tasks that may panic holding the lock (PoisonSpec); and           *)
(* ComputerTool::execute (src/src/tools/computer.rs) on a policy (ToolSpec).*)
(*                                                                          *)
(* A command string is a sequence of characters.  A character is a         *)
(* one-character string; the characters that cannot be written in a string *)
(* literal here are named: NUL, LF, TAB and BACKTICK.                       *)
(*                                                                          *)
(* A let-binding of the source that is read more than once is written as   *)
(* an operator taking the bound value as a parameter.                       *)
(***************************************************************************)
EXTENDS Integers, Sequences, FiniteSets, TLC

VARIABLES
    policy,     \* the SecurityPolicy the calls are made on
    op,         \* the method called last, "idle" between calls
    command,    \* its command argument
    approved,   \* its approved argument
    ret,        \* what it returned
    prev,       \* what the unapproved call returned, on the approved retry
    path_arg,   \* the path argument of a path check
    env_home,   \* the HOME environment variable
    fs_canonical, \* what workspace_dir.canonicalize() returns
    actions,    \* ActionTracker::actions, the Vec behind the Mutex
    now,        \* Instant::now(), in seconds since the clock's origin
    calls,      \* recording calls made on the tracker since it was new
    first,      \* when the first of them was made
    last,       \* when the latest of them was made
    pc,         \* where each task is in its record() call
    mutex,      \* the task holding the Mutex
    cutoff,     \* each task's cutoff
    returned,   \* what each task's record() calls returned
    poisoned,   \* the Mutex is poisoned: a task panicked while holding it
    limited,    \* what is_rate_limited() last told each task
    copy,       \* the Vec behind the Mutex that clone() made
    alias       \* the Mutex the clone holds: 0 none yet, 1 the original's, 2 its own

command_vars == <<op, command, approved, ret, prev>>

path_vars == <<path_arg, env_home, fs_canonical>>

history_vars == <<calls, first, last>>

task_vars == <<pc, mutex, cutoff, returned, poisoned, limited>>

clone_vars == <<copy, alias>>

tracker_vars == <<actions, now, history_vars, task_vars, clone_vars>>

vars == <<policy, command_vars, path_vars, tracker_vars>>

-----------------------------------------------------------------------------
(* Characters *)

NUL == "NUL"

LF == "LF"

TAB == "TAB"

BACKTICK == "BACKTICK"

UpperCase == <<"A", "B", "C", "D", "E", "F", "G", "H", "I", "J", "K", "L", "M",
               "N", "O", "P", "Q", "R", "S", "T", "U", "V", "W", "X", "Y", "Z">>

LowerCase == <<"a", "b", "c", "d", "e", "f", "g", "h", "i", "j", "k", "l", "m",
               "n", "o", "p", "q", "r", "s", "t", "u", "v", "w", "x", "y", "z">>

UpperSet == {UpperCase[i] : i \in 1..26}

LowerSet == {LowerCase[i] : i \in 1..26}

\* char::is_whitespace, for the characters a command of the model can hold
is_whitespace(c) == c \in {" ", TAB, LF}

is_ascii_alphabetic(c) == c \in UpperSet \cup LowerSet

char_to_ascii_lowercase(c) ==
    IF c \in UpperSet
    THEN LowerCase[CHOOSE i \in 1..26 : UpperCase[i] = c]
    ELSE c

\* str::to_ascii_lowercase
to_ascii_lowercase(s) ==
    IF s = <<>> THEN <<>>
    ELSE [i \in 1..Len(s) |-> char_to_ascii_lowercase(s[i])]

-----------------------------------------------------------------------------
(* str methods *)

\* str::contains(pattern)
contains(s, pat) ==
    \E i \in 1..(Len(s) + 1) :
        /\ i + Len(pat) - 1 <= Len(s)
        /\ SubSeq(s, i, i + Len(pat) - 1) = pat

\* str::starts_with(pattern)
starts_with(s, pat) == Len(pat) <= Len(s) /\ SubSeq(s, 1, Len(pat)) = pat

\* str::replace(pattern, "\x00"): non-overlapping matches, leftmost first
RECURSIVE replace(_, _)
replace(s, pat) ==
    IF Len(s) < Len(pat) THEN s
    ELSE IF SubSeq(s, 1, Len(pat)) = pat
         THEN <<NUL>> \o replace(SubSeq(s, Len(pat) + 1, Len(s)), pat)
         ELSE <<s[1]>> \o replace(Tail(s), pat)

\* Position of the first sep in s, 0 when there is none
find(s, sep) ==
    IF \A i \in 1..Len(s) : s[i] # sep THEN 0
    ELSE CHOOSE i \in 1..Len(s) : s[i] = sep /\ \A j \in 1..(i - 1) : s[j] # sep

\* Position of the last sep in s, 0 when there is none
rfind(s, sep) ==
    IF \A i \in 1..Len(s) : s[i] # sep THEN 0
    ELSE CHOOSE i \in 1..Len(s) :
             s[i] = sep /\ \A j \in (i + 1)..Len(s) : s[j] # sep

\* str::split(sep) for a one-character separator: always at least one piece
RECURSIVE split(_, _)
split_at(s, sep, k) ==
    IF k = 0 THEN <<s>>
    ELSE <<SubSeq(s, 1, k - 1)>> \o split(SubSeq(s, k + 1, Len(s)), sep)

split(s, sep) == split_at(s, sep, find(s, sep))

\* str::rsplit(sep).next(): what follows the last sep, the whole when none
rsplit_next(s, sep) == SubSeq(s, rfind(s, sep) + 1, Len(s))

\* str::trim_start
RECURSIVE trim_start(_)
trim_start(s) ==
    IF s # <<>> /\ is_whitespace(s[1]) THEN trim_start(Tail(s)) ELSE s

\* str::trim_end
RECURSIVE trim_end(_)
trim_end(s) ==
    IF s # <<>> /\ is_whitespace(s[Len(s)])
    THEN trim_end(SubSeq(s, 1, Len(s) - 1))
    ELSE s

\* str::trim
trim(s) == trim_end(trim_start(s))

\* Length of the leading run of non-whitespace characters of t
word_len(t) ==
    IF \A i \in 1..Len(t) : ~is_whitespace(t[i]) THEN Len(t)
    ELSE (CHOOSE i \in 1..Len(t) :
              is_whitespace(t[i]) /\ \A j \in 1..(i - 1) : ~is_whitespace(t[j])) - 1

\* str::split_whitespace, collected: the non-empty whitespace-free runs
RECURSIVE split_whitespace(_)
words_from(t, n) ==
    IF t = <<>> THEN <<>>
    ELSE <<SubSeq(t, 1, n)>> \o split_whitespace(SubSeq(t, n + 1, Len(t)))

words_of(t) == words_from(t, word_len(t))

split_whitespace(s) == words_of(trim_start(s))

-----------------------------------------------------------------------------
(* Types of src/src/security/policy.rs *)

AutonomyLevel == {"ReadOnly", "Supervised", "Full"}

CommandRiskLevel == {"Low", "Medium", "High"}

\* The values of Result<CommandRiskLevel, String> that validate_command_execution
\* builds: Ok(risk) and its three error messages
Ok(risk) == [kind |-> "Ok", risk |-> risk]

PolicyDenied == [kind |-> "PolicyDenied", risk |-> "none"]

Catastrophic == [kind |-> "Catastrophic", risk |-> "none"]

ApprovalRequired(risk) == [kind |-> "ApprovalRequired", risk |-> risk]

-----------------------------------------------------------------------------
(* Command segmentation *)

\* A word that contains '=' and starts with a letter or an underscore
is_env_assignment(word) ==
    /\ \E i \in 1..Len(word) : word[i] = "="
    /\ word # <<>>
    /\ (is_ascii_alphabetic(word[1]) \/ word[1] = "_")

\* Skip leading environment variable assignments: the remainder starting at
\* the first non-assignment word.  The loop drops the first word's length from
\* the front and trims what is left.
RECURSIVE skip_env_assignments(_)
skip_env_step(rest, words) ==
    IF words = <<>> THEN rest
    ELSE IF is_env_assignment(words[1])
         THEN skip_env_assignments(
                  trim_start(SubSeq(rest, Len(words[1]) + 1, Len(rest))))
         ELSE rest

skip_env_assignments(s) == skip_env_step(s, split_whitespace(s))

\* The separators become NUL: first the two-character ones, then the
\* one-character ones
normalize(cmd) ==
    replace(replace(replace(replace(replace(cmd,
        <<"&", "&">>), <<"|", "|">>), <<LF>>), <<";">>), <<"|">>)

\* normalized.split('\x00')
segments(cmd) == split(normalize(cmd), NUL)

-----------------------------------------------------------------------------
(* command_risk_level *)

\* rm mkfs dd shutdown reboot halt poweroff sudo su chown chmod useradd userdel
\* usermod passwd mount umount iptables ufw firewall-cmd curl wget nc ncat
\* netcat scp ssh ftp telnet
HighRiskBases ==
    { <<"r", "m">>,
      <<"m", "k", "f", "s">>,
      <<"d", "d">>,
      <<"s", "h", "u", "t", "d", "o", "w", "n">>,
      <<"r", "e", "b", "o", "o", "t">>,
      <<"h", "a", "l", "t">>,
      <<"p", "o", "w", "e", "r", "o", "f", "f">>,
      <<"s", "u", "d", "o">>,
      <<"s", "u">>,
      <<"c", "h", "o", "w", "n">>,
      <<"c", "h", "m", "o", "d">>,
      <<"u", "s", "e", "r", "a", "d", "d">>,
      <<"u", "s", "e", "r", "d", "e", "l">>,
      <<"u", "s", "e", "r", "m", "o", "d">>,
      <<"p", "a", "s", "s", "w", "d">>,
      <<"m", "o", "u", "n", "t">>,
      <<"u", "m", "o", "u", "n", "t">>,
      <<"i", "p", "t", "a", "b", "l", "e", "s">>,
      <<"u", "f", "w">>,
      <<"f", "i", "r", "e", "w", "a", "l", "l", "-", "c", "m", "d">>,
      <<"c", "u", "r", "l">>,
      <<"w", "g", "e", "t">>,
      <<"n", "c">>,
      <<"n", "c", "a", "t">>,
      <<"n", "e", "t", "c", "a", "t">>,
      <<"s", "c", "p">>,
      <<"s", "s", "h">>,
      <<"f", "t", "p">>,
      <<"t", "e", "l", "n", "e", "t">> }

\* commit push reset clean rebase merge cherry-pick revert branch checkout
\* switch tag
GitVerbs ==
    { <<"c", "o", "m", "m", "i", "t">>,
      <<"p", "u", "s", "h">>,
      <<"r", "e", "s", "e", "t">>,
      <<"c", "l", "e", "a", "n">>,
      <<"r", "e", "b", "a", "s", "e">>,
      <<"m", "e", "r", "g", "e">>,
      <<"c", "h", "e", "r", "r", "y", "-", "p", "i", "c", "k">>,
      <<"r", "e", "v", "e", "r", "t">>,
      <<"b", "r", "a", "n", "c", "h">>,
      <<"c", "h", "e", "c", "k", "o", "u", "t">>,
      <<"s", "w", "i", "t", "c", "h">>,
      <<"t", "a", "g">> }

\* install add remove uninstall update publish
NodeVerbs ==
    { <<"i", "n", "s", "t", "a", "l", "l">>,
      <<"a", "d", "d">>,
      <<"r", "e", "m", "o", "v", "e">>,
      <<"u", "n", "i", "n", "s", "t", "a", "l", "l">>,
      <<"u", "p", "d", "a", "t", "e">>,
      <<"p", "u", "b", "l", "i", "s", "h">> }

\* add remove install clean publish
CargoVerbs ==
    { <<"a", "d", "d">>,
      <<"r", "e", "m", "o", "v", "e">>,
      <<"i", "n", "s", "t", "a", "l", "l">>,
      <<"c", "l", "e", "a", "n">>,
      <<"p", "u", "b", "l", "i", "s", "h">> }

\* npm pnpm yarn
NodeBases ==
    { <<"n", "p", "m">>,
      <<"p", "n", "p", "m">>,
      <<"y", "a", "r", "n">> }

\* touch mkdir mv cp ln
AlwaysMediumBases ==
    { <<"t", "o", "u", "c", "h">>,
      <<"m", "k", "d", "i", "r">>,
      <<"m", "v">>,
      <<"c", "p">>,
      <<"l", "n">> }

\* base, args and joined_segment of a segment whose words are given: the
\* basename of the first word, the other words, and the text, in lower case
risk_record(cmd_part, words) ==
    [present |-> words # <<>>,
     base |-> IF words = <<>> THEN <<>>
              ELSE to_ascii_lowercase(rsplit_next(words[1], "/")),
     args |-> IF Len(words) <= 1 THEN <<>>
              ELSE [i \in 1..(Len(words) - 1) |->
                        to_ascii_lowercase(words[i + 1])],
     joined_segment |-> to_ascii_lowercase(cmd_part)]

risk_parts_of(cmd_part) == risk_record(cmd_part, split_whitespace(cmd_part))

\* What the loop extracts from one piece of the normalized command; a piece
\* that is blank or has no word after its env assignments is skipped
risk_parts(piece) == risk_parts_of(skip_env_assignments(trim(piece)))

is_high(p) ==
    /\ p.present
    /\ \/ p.base \in HighRiskBases
       \/ contains(p.joined_segment, <<"r", "m", " ", "-", "r", "f", " ", "/">>)
       \/ contains(p.joined_segment, <<"r", "m", " ", "-", "f", "r", " ", "/">>)
       \/ contains(p.joined_segment,
                   <<":", "(", ")", "{", ":", "|", ":", "&", "}", ";", ":">>)

is_medium(p) ==
    /\ p.present
    /\ \/ p.base = <<"g", "i", "t">> /\ p.args # <<>> /\ p.args[1] \in GitVerbs
       \/ p.base \in NodeBases /\ p.args # <<>> /\ p.args[1] \in NodeVerbs
       \/ p.base = <<"c", "a", "r", "g", "o">> /\ p.args # <<>>
            /\ p.args[1] \in CargoVerbs
       \/ p.base \in AlwaysMediumBases

segment_is_high(piece) == is_high(risk_parts(piece))

segment_is_medium(piece) == is_medium(risk_parts(piece))

\* The loop returns High at the first high segment; a medium segment only sets
\* saw_medium, which decides once no segment was high
risk_of_segments(segs) ==
    IF \E i \in 1..Len(segs) : segment_is_high(segs[i]) THEN "High"
    ELSE IF \E i \in 1..Len(segs) : segment_is_medium(segs[i]) THEN "Medium"
    ELSE "Low"

command_risk_level(cmd) == risk_of_segments(segments(cmd))

-----------------------------------------------------------------------------
(* is_catastrophic *)

\* shutdown reboot halt poweroff
PowerBases ==
    { <<"s", "h", "u", "t", "d", "o", "w", "n">>,
      <<"r", "e", "b", "o", "o", "t">>,
      <<"h", "a", "l", "t">>,
      <<"p", "o", "w", "e", "r", "o", "f", "f">> }

has_rf(words) ==
    \E i \in 1..Len(words) :
        \/ words[i] = <<"-", "r", "f">>
        \/ words[i] = <<"-", "f", "r">>
        \/ /\ starts_with(words[i], <<"-">>)
           /\ contains(words[i], <<"r">>)
           /\ contains(words[i], <<"f">>)

\* targets_root that takes every absolute argument for the root
targets_root_any_absolute(words) ==
    \E i \in 1..Len(words) : starts_with(words[i], <<"/">>)

targets_root(words) ==
    \E i \in 1..Len(words) : words[i] = <<"/">> \/ words[i] = <<"/", "*">>

\* The match on the basename of a segment's first word
catastrophic_base(base, words) ==
    \/ base \in PowerBases
    \/ starts_with(base, <<"m", "k", "f", "s">>)
    \/ base = <<"r", "m">> /\ has_rf(words) /\ targets_root(words)

\* One piece of the lower-cased, normalized command.  Its first word is taken
\* as it stands: no env assignment is skipped.
catastrophic_words(words) ==
    /\ words # <<>>
    /\ catastrophic_base(rsplit_next(words[1], "/"), words)

catastrophic_segment(piece) == catastrophic_words(split_whitespace(piece))

catastrophic_segments(segs) ==
    \E i \in 1..Len(segs) : catastrophic_segment(segs[i])

catastrophic_lower(lower) ==
    \/ contains(lower, <<":", "(", ")", "{", ":", "|", ":", "&", "}", ";", ":">>)
    \/ contains(lower, <<"d", "d", " ">>) /\ contains(lower, <<"o", "f", "=", "/", "d", "e", "v", "/">>)
    \/ catastrophic_segments(segments(lower))

is_catastrophic(cmd) == catastrophic_lower(to_ascii_lowercase(cmd))

-----------------------------------------------------------------------------
(* is_command_allowed *)

first_basename(words) ==
    IF words = <<>> THEN <<>> ELSE rsplit_next(words[1], "/")

\* base_cmd: basename of the first word after the env assignments, in the
\* case it was written in; empty when there is no such word
allow_base(piece) ==
    first_basename(split_whitespace(skip_env_assignments(trim(piece))))

\* An empty base_cmd is skipped, any other must be on the allowlist
base_passes(p, base_cmd) ==
    base_cmd = <<>> \/ base_cmd \in p.allowed_commands

\* One turn of the allowlist loop: a blank segment is skipped
segment_passes(p, piece) ==
    trim(piece) = <<>> \/ base_passes(p, allow_base(piece))

\* The closing has_cmd test: some piece has a word after its env assignments
has_cmd(segs) ==
    \E i \in 1..Len(segs) :
        split_whitespace(skip_env_assignments(trim(segs[i]))) # <<>>

segments_allowed(p, segs) ==
    /\ \A i \in 1..Len(segs) : segment_passes(p, segs[i])
    /\ has_cmd(segs)

\* has_injection_marker with the `${` test left out
has_injection_marker_without_brace(cmd) ==
    \/ contains(cmd, <<BACKTICK>>)
    \/ contains(cmd, <<"$", "(">>)

has_injection_marker(cmd) ==
    \/ contains(cmd, <<BACKTICK>>)
    \/ contains(cmd, <<"$", "(">>)
    \/ contains(cmd, <<"$", "{">>)

has_redirect(cmd) == contains(cmd, <<">">>)

\* is_command_allowed with the ReadOnly test left out
is_command_allowed_without_readonly(p, cmd) ==
    /\ ~has_injection_marker(cmd)
    /\ ~has_redirect(cmd)
    /\ segments_allowed(p, segments(cmd))

is_command_allowed(p, cmd) ==
    /\ p.autonomy # "ReadOnly"
    /\ ~has_injection_marker(cmd)
    /\ ~has_redirect(cmd)
    /\ segments_allowed(p, segments(cmd))

can_act(p) == p.autonomy # "ReadOnly"

-----------------------------------------------------------------------------
(* validate_command_execution *)

\* approval_gate whose High gate does not read the approved flag
approval_gate_high_ignores_approved(p, risk, is_approved) ==
    IF risk = "High" /\ p.autonomy = "Supervised"
    THEN ApprovalRequired("High")
    ELSE IF /\ risk = "Medium"
            /\ p.autonomy = "Supervised"
            /\ p.require_approval_for_medium_risk
            /\ ~is_approved
         THEN ApprovalRequired("Medium")
         ELSE Ok(risk)

\* approval_gate that gates every autonomy level but ReadOnly
approval_gate_any_autonomy(p, risk, is_approved) ==
    IF risk = "High" /\ p.autonomy # "ReadOnly" /\ ~is_approved
    THEN ApprovalRequired("High")
    ELSE IF /\ risk = "Medium"
            /\ p.autonomy # "ReadOnly"
            /\ p.require_approval_for_medium_risk
            /\ ~is_approved
         THEN ApprovalRequired("Medium")
         ELSE Ok(risk)

\* The two approval gates and the final Ok(risk)
approval_gate(p, risk, is_approved) ==
    IF risk = "High" /\ p.autonomy = "Supervised" /\ ~is_approved
    THEN ApprovalRequired("High")
    ELSE IF /\ risk = "Medium"
            /\ p.autonomy = "Supervised"
            /\ p.require_approval_for_medium_risk
            /\ ~is_approved
         THEN ApprovalRequired("Medium")
         ELSE Ok(risk)

\* validate_command_execution where approval also lifts the catastrophic block
validate_approval_lifts_catastrophic(p, cmd, is_approved) ==
    IF ~is_command_allowed(p, cmd) THEN PolicyDenied
    ELSE IF is_catastrophic(cmd) /\ ~is_approved THEN Catastrophic
    ELSE approval_gate(p, command_risk_level(cmd), is_approved)

\* validate_command_execution with the catastrophic test before the allowlist
validate_catastrophic_first(p, cmd, is_approved) ==
    IF is_catastrophic(cmd) THEN Catastrophic
    ELSE IF ~is_command_allowed(p, cmd) THEN PolicyDenied
    ELSE approval_gate(p, command_risk_level(cmd), is_approved)

\* validate_command_execution that enforces block_high_risk_commands
validate_blocks_high_risk(p, cmd, is_approved) ==
    IF ~is_command_allowed(p, cmd) THEN PolicyDenied
    ELSE IF is_catastrophic(cmd) THEN Catastrophic
    ELSE IF p.block_high_risk_commands /\ command_risk_level(cmd) = "High"
         THEN PolicyDenied
    ELSE approval_gate(p, command_risk_level(cmd), is_approved)

validate_command_execution(p, cmd, is_approved) ==
    IF ~is_command_allowed(p, cmd) THEN PolicyDenied
    ELSE IF is_catastrophic(cmd) THEN Catastrophic
    ELSE approval_gate(p, command_risk_level(cmd), is_approved)

-----------------------------------------------------------------------------
(* std::path on Unix *)

RootDir == [kind |-> "RootDir", name |-> <<>>]

CurDir == [kind |-> "CurDir", name |-> <<>>]

ParentDir == [kind |-> "ParentDir", name |-> <<>>]

Normal(name) == [kind |-> "Normal", name |-> name]

\* Path::has_root / Path::is_absolute
is_absolute(path) == path # <<>> /\ path[1] = "/"

\* The component of one piece between separators
component_of(piece) == IF piece = <<".", ".">> THEN ParentDir ELSE Normal(piece)

\* Empty pieces (repeated or trailing separators) and `.` pieces are no
\* components
is_component_piece(piece) == piece # <<>> /\ piece # <<".">>

components_of_pieces(pieces) ==
    [i \in 1..Len(pieces) |-> component_of(pieces[i])]

\* A `.` is a component only as the first piece of a path without a root
leading_components(path, pieces) ==
    IF is_absolute(path) THEN <<RootDir>>
    ELSE IF pieces[1] = <<".">> THEN <<CurDir>>
    ELSE <<>>

components_from(path, pieces) ==
    leading_components(path, pieces)
        \o components_of_pieces(SelectSeq(pieces, is_component_piece))

\* Path::components, collected
components(path) == components_from(path, split(path, "/"))

is_component_prefix(base, comps) ==
    Len(base) <= Len(comps) /\ SubSeq(comps, 1, Len(base)) = base

\* A plausible slip: the prefix test on the text, not on the components
path_starts_with_as_text(path, base) == starts_with(path, base)

\* Path::starts_with: every component of base, in order, starts the path
path_starts_with(path, base) ==
    is_component_prefix(components(base), components(path))

\* PathBuf::join: an absolute argument replaces the path; otherwise it is
\* appended, after a separator unless the path is empty or ends with one
join(base, path) ==
    IF is_absolute(path) THEN path
    ELSE IF base = <<>> \/ base[Len(base)] = "/" THEN base \o path
    ELSE base \o <<"/">> \o path

\* str::to_lowercase, on ASCII text
to_lowercase(s) == to_ascii_lowercase(s)

-----------------------------------------------------------------------------
(* is_path_allowed, is_resolved_path_allowed *)

\* std::env::var("HOME") is an error: the variable is not set
NoHome == "NoHome"

\* Path::canonicalize is an error: the directory does not exist
CanonicalizeFailed == "CanonicalizeFailed"

\* A plausible slip: `..` looked for in the text, not among the components
has_parent_dir_as_text(path) == contains(path, <<".", ".">>)

\* Path::new(path).components().any(ParentDir)
has_parent_dir(path) ==
    \E i \in 1..Len(components(path)) : components(path)[i] = ParentDir

has_encoded_traversal(lower) ==
    contains(lower, <<".", ".", "%", "2", "f">>) \/ contains(lower, <<"%", "2", "f", ".", ".">>)

\* `~/rest` becomes HOME joined with rest when HOME is set
expand_tilde(home, path) ==
    IF starts_with(path, <<"~", "/">>) /\ home # NoHome
    THEN join(home, SubSeq(path, 3, Len(path)))
    ELSE path

is_forbidden(p, home, expanded) ==
    \E forbidden \in p.forbidden_paths :
        path_starts_with(expanded, expand_tilde(home, forbidden))

expanded_path_allowed(p, home, expanded) ==
    IF p.workspace_only /\ is_absolute(expanded) THEN FALSE
    ELSE ~is_forbidden(p, home, expanded)

\* A plausible slip: absolute paths refused whatever workspace_only is
is_path_allowed_workspace_only_ignored(p, home, path) ==
    IF contains(path, <<NUL>>) THEN FALSE
    ELSE IF has_parent_dir(path) THEN FALSE
    ELSE IF has_encoded_traversal(to_lowercase(path)) THEN FALSE
    ELSE IF is_absolute(expand_tilde(home, path)) THEN FALSE
    ELSE ~is_forbidden(p, home, expand_tilde(home, path))

is_path_allowed(p, home, path) ==
    IF contains(path, <<NUL>>) THEN FALSE
    ELSE IF has_parent_dir(path) THEN FALSE
    ELSE IF has_encoded_traversal(to_lowercase(path)) THEN FALSE
    ELSE expanded_path_allowed(p, home, expand_tilde(home, path))

\* workspace_dir.canonicalize().unwrap_or_else(|_| workspace_dir.clone())
workspace_root(p, canonical) ==
    IF canonical = CanonicalizeFailed THEN p.workspace_dir ELSE canonical

\* A plausible slip: the workspace root compared as text
is_resolved_path_allowed_as_text(p, canonical, resolved) ==
    starts_with(resolved, workspace_root(p, canonical))

is_resolved_path_allowed(p, canonical, resolved) ==
    path_starts_with(resolved, workspace_root(p, canonical))

-----------------------------------------------------------------------------
(* ActionTracker, record_action, is_rate_limited *)

\* Duration::from_secs(3600)
Window == 3600

\* Option<Instant>
None == <<>>

Some(t) == <<t>>

\* The least Instant.  On Unix an Instant is a signed 64-bit count of seconds
\* and a fraction, so the least one lies far before the clock's origin; it is
\* kept within 32 bits here
InstantMin == -2147483647

\* checked_sub of a clock that cannot go below its origin
checked_sub_unsigned(t, d) == IF t - d < 0 THEN None ELSE Some(t - d)

\* Instant::checked_sub: None when the result is before the least Instant
checked_sub(t, d) == IF t - d < InstantMin THEN None ELSE Some(t - d)

\* .unwrap_or_else(Instant::now)
unwrap_or_now(instant, t) == IF instant = None THEN t ELSE instant[1]

\* let cutoff = Instant::now().checked_sub(..).unwrap_or_else(Instant::now)
cutoff_at(t) == unwrap_or_now(checked_sub(t, Window), t)

\* A plausible slip: an action exactly one hour old is kept
retain_from(acts, cut) == SelectSeq(acts, LAMBDA t : t >= cut)

\* actions.retain(|t| *t > cutoff)
retain(acts, cut) == SelectSeq(acts, LAMBDA t : t > cut)

\* count() that pushes as record() does
counted_pushing(acts, t) == Append(retain(acts, cutoff_at(t)), t)

\* The Vec when count returns
counted(acts, t) == retain(acts, cutoff_at(t))

\* A plausible slip: the action is pushed without the old ones being kept
recorded_alone(acts, t) == <<t>>

\* The Vec when record returns
recorded(acts, t) == Append(retain(acts, cutoff_at(t)), t)

\* A plausible slip: the limit itself is refused
within_limit_strict(p, count) == count < p.max_actions_per_hour

\* count <= self.max_actions_per_hour as usize
within_limit(p, count) == count <= p.max_actions_per_hour

\* self.tracker.count() >= self.max_actions_per_hour as usize
at_limit(p, count) == count >= p.max_actions_per_hour

\* clone() that hands out the Mutex it was called on
clone_target_shared(own, fresh) == own

\* Mutex::new(actions.clone()): the clone holds a Mutex of its own
clone_target(own, fresh) == fresh

\* lock().unwrap(): a poisoned Mutex is not recovered
lock_recovers_unpoisoned(poison) == ~poison

\* lock().unwrap_or_else(PoisonError::into_inner): the guard is taken out of
\* the PoisonError
lock_recovers(poison) == TRUE

\* A plausible slip: the Mutex does not exclude
can_lock_unguarded(owner) == TRUE

\* Mutex::lock returns once no task holds the Mutex; 0 is no task
can_lock(owner) == owner = 0

-----------------------------------------------------------------------------
(* Inputs *)

\* ls
Seg_ls == <<"l", "s">>

\* nc
Seg_nc == <<"n", "c">>

\* rm -rf /
Seg_rm_rf_root == <<"r", "m", " ", "-", "r", "f", " ", "/">>

\* rm -rf /x
Seg_rm_rf_x == <<"r", "m", " ", "-", "r", "f", " ", "/", "x">>

\* The segments of the commands of two segments
JoinPool ==
    { Seg_ls, Seg_nc, Seg_rm_rf_root, Seg_rm_rf_x,
      \* cp
      <<"c", "p">>,
      \* LS
      <<"L", "S">>,
      \* ls &
      <<"l", "s", " ", "&">>,
      \* halt
      <<"h", "a", "l", "t">>,
      \* A=b halt
      <<"A", "=", "b", " ", "h", "a", "l", "t">>,
      \* the empty string
      <<>>,
      \* A=b
      <<"A", "=", "b">>,
      \* /
      <<"/">>,
      \* ls $(
      <<"l", "s", " ", "$", "(">> }

\* The segments commands are made of
SegmentPool ==
    JoinPool \cup
    { \* ls ${
      <<"l", "s", " ", "$", "{">>,
      \* /b/ls
      <<"/", "b", "/", "l", "s">>,
      \* rm -fr /*
      <<"r", "m", " ", "-", "f", "r", " ", "/", "*">>,
      \* /b/HALT
      <<"/", "b", "/", "H", "A", "L", "T">>,
      \* mkfs.x
      <<"m", "k", "f", "s", ".", "x">>,
      \* one space
      <<" ">>,
      \* ls and a backtick
      <<"l", "s", " ", BACKTICK>>,
      \* ls >
      <<"l", "s", " ", ">">>,
      \* git push
      <<"g", "i", "t", " ", "p", "u", "s", "h">>,
      \* git log
      <<"g", "i", "t", " ", "l", "o", "g">>,
      \* :(){:|:&};:
      <<":", "(", ")", "{", ":", "|", ":", "&", "}", ";", ":">>,
      \* dd of=/dev/x
      <<"d", "d", " ", "o", "f", "=", "/", "d", "e", "v", "/", "x">> }

\* The segments of the longer commands
CorePool == {Seg_ls, Seg_nc}

\* Most segments joined into one command
MaxSegments == 3

\* ; && || | and newline
Separators == {<<";">>, <<"&", "&">>, <<"|", "|">>, <<"|">>, <<LF>>}

\* The separators of the longer commands: && | and newline
CoreSeparators == {<<"&", "&">>, <<"|">>, <<LF>>}

\* The commands of exactly n segments of the pool joined by the separators
RECURSIVE Joined(_, _, _)
Joined(pool, seps, n) ==
    IF n = 1 THEN pool
    ELSE {j[1] \o j[2] \o j[3] : j \in Joined(pool, seps, n - 1) \X seps \X pool}

\* Every segment alone, every two JoinPool segments joined by a separator,
\* and up to MaxSegments core segments joined by core separators
Commands ==
    SegmentPool \cup Joined(JoinPool, Separators, 2)
        \cup UNION {Joined(CorePool, CoreSeparators, n) : n \in 3..MaxSegments}

\* allowed_commands: nothing; ls cp; ls cp rm nc halt
Allowlists ==
    { {},
      {<<"l", "s">>, <<"c", "p">>},
      {<<"l", "s">>, <<"c", "p">>, <<"r", "m">>, <<"n", "c">>,
       <<"h", "a", "l", "t">>} }

\* The policies the command calls are made on; block_high_risk_commands is set
Policies ==
    [autonomy : AutonomyLevel,
     allowed_commands : Allowlists,
     require_approval_for_medium_risk : BOOLEAN,
     block_high_risk_commands : {TRUE}]

\* /
Path_root == <<"/">>

\* /w/x
Path_w_x == <<"/", "w", "/", "x">>

\* The paths asked about: plain, with `..` inside a name, with a `..`
\* component, with a NUL, with an encoded traversal, absolute, home-relative,
\* inside and beside the workspace
PathPool ==
    { Path_root, Path_w_x,
      \* a..b
      <<"a", ".", ".", "b">>,
      \* a/../x
      <<"a", "/", ".", ".", "/", "x">>,
      \* /w2/x
      <<"/", "w", "2", "/", "x">>,
      \* the empty path
      <<>>,
      \* x
      <<"x">>,
      \* ./x
      <<".", "/", "x">>,
      \* ..
      <<".", ".">>,
      \* ../x
      <<".", ".", "/", "x">>,
      \* x, NUL, y
      <<"x", NUL, "y">>,
      \* a/..%2fx
      <<"a", "/", ".", ".", "%", "2", "f", "x">>,
      \* x%2F..
      <<"x", "%", "2", "F", ".", ".">>,
      \* /etc
      <<"/", "e", "t", "c">>,
      \* /etc/
      <<"/", "e", "t", "c", "/">>,
      \* //etc
      <<"/", "/", "e", "t", "c">>,
      \* /etc/x
      <<"/", "e", "t", "c", "/", "x">>,
      \* /etc2
      <<"/", "e", "t", "c", "2">>,
      \* ~
      <<"~">>,
      \* ~/x
      <<"~", "/", "x">>,
      \* ~/.ssh/k
      <<"~", "/", ".", "s", "s", "h", "/", "k">>,
      \* ~//.ssh/k
      <<"~", "/", "/", ".", "s", "s", "h", "/", "k">>,
      \* /h/x
      <<"/", "h", "/", "x">>,
      \* /h/.ssh/k
      <<"/", "h", "/", ".", "s", "s", "h", "/", "k">>,
      \* /w
      <<"/", "w">>,
      \* /w/./x
      <<"/", "w", "/", ".", "/", "x">>,
      \* /l/x
      <<"/", "l", "/", "x">> }

\* forbidden_paths: nothing; /etc and ~/.ssh; the workspace itself
ForbiddenLists ==
    { {},
      {<<"/", "e", "t", "c">>, <<"~", "/", ".", "s", "s", "h">>},
      {<<"/", "w">>} }

\* workspace_dir: the directory /w, or /l, a link to it
WorkspaceDirs == {<<"/", "w">>, <<"/", "l">>}

\* HOME: not set, or /h
Homes == {NoHome, <<"/", "h">>}

\* canonicalize: fails, or gives /w
CanonicalResults == {CanonicalizeFailed, <<"/", "w">>}

PathPolicies ==
    [workspace_only : BOOLEAN,
     forbidden_paths : ForbiddenLists,
     workspace_dir : WorkspaceDirs]

\* The most max_actions_per_hour of a policy
MaxLimit == 2

\* The most recording calls made on one tracker
MaxCalls == 3

\* The hours the clock runs for
MaxHours == 2

\* The most tasks sharing one tracker
MaxTasks == 2

Tasks == 1..MaxTasks

TrackerPolicies == [max_actions_per_hour : 0..MaxLimit]

-----------------------------------------------------------------------------
(* The policy and the calls made on it *)

NoCommand == <<>>

\* No path check is made
NoPathCall ==
    /\ path_arg = <<>>
    /\ env_home = NoHome
    /\ fs_canonical = CanonicalizeFailed

\* The tracker is new and no task uses it
NoTrackerCall ==
    /\ actions = <<>>
    /\ now = 0
    /\ calls = 0
    /\ first = 0
    /\ last = 0
    /\ pc = <<>>
    /\ mutex = 0
    /\ cutoff = <<>>
    /\ returned = <<>>
    /\ poisoned = FALSE
    /\ limited = <<>>
    /\ copy = <<>>
    /\ alias = 0

Init ==
    /\ policy \in Policies
    /\ op = "idle"
    /\ command = NoCommand
    /\ approved = FALSE
    /\ ret = FALSE
    /\ prev = FALSE
    /\ NoPathCall
    /\ NoTrackerCall

CallIsCommandAllowed ==
    /\ op = "idle"
    /\ \E c \in Commands :
           /\ command' = c
           /\ ret' = is_command_allowed(policy, c)
    /\ op' = "is_command_allowed"
    /\ UNCHANGED <<policy, approved, prev, path_vars, tracker_vars>>

CallCommandRiskLevel ==
    /\ op = "idle"
    /\ \E c \in Commands :
           /\ command' = c
           /\ ret' = command_risk_level(c)
    /\ op' = "command_risk_level"
    /\ UNCHANGED <<policy, approved, prev, path_vars, tracker_vars>>

CallIsCatastrophic ==
    /\ op = "idle"
    /\ \E c \in Commands :
           /\ command' = c
           /\ ret' = is_catastrophic(c)
    /\ op' = "is_catastrophic"
    /\ UNCHANGED <<policy, approved, prev, path_vars, tracker_vars>>

CallCanAct ==
    /\ op = "idle"
    /\ op' = "can_act"
    /\ ret' = can_act(policy)
    /\ UNCHANGED <<policy, command, approved, prev, path_vars, tracker_vars>>

CallValidate ==
    /\ op = "idle"
    /\ \E c \in Commands, a \in BOOLEAN :
           /\ command' = c
           /\ approved' = a
           /\ ret' = validate_command_execution(policy, c, a)
    /\ op' = "validate_command_execution"
    /\ UNCHANGED <<policy, prev, path_vars, tracker_vars>>

\* The caller repeats a call made without approval, now with approved = true
RetryApproved ==
    /\ op = "validate_command_execution"
    /\ ~approved
    /\ op' = "retry"
    /\ approved' = TRUE
    /\ prev' = ret
    /\ ret' = validate_command_execution(policy, command, TRUE)
    /\ UNCHANGED <<policy, command, path_vars, tracker_vars>>

Return ==
    /\ op # "idle"
    /\ op' = "idle"
    /\ command' = NoCommand
    /\ approved' = FALSE
    /\ ret' = FALSE
    /\ prev' = FALSE
    /\ UNCHANGED <<policy, path_vars, tracker_vars>>

Next ==
    \/ CallIsCommandAllowed
    \/ CallCommandRiskLevel
    \/ CallIsCatastrophic
    \/ CallCanAct
    \/ CallValidate
    \/ RetryApproved
    \/ Return

-----------------------------------------------------------------------------
(* The path checks made on a policy *)

PathInit ==
    /\ policy \in PathPolicies
    /\ env_home \in Homes
    /\ fs_canonical \in CanonicalResults
    /\ path_arg = <<>>
    /\ op = "idle"
    /\ command = NoCommand
    /\ approved = FALSE
    /\ ret = FALSE
    /\ prev = FALSE
    /\ NoTrackerCall

CallIsPathAllowed ==
    /\ \E path \in PathPool :
           /\ path_arg' = path
           /\ ret' = is_path_allowed(policy, env_home, path)
    /\ op' = "is_path_allowed"
    /\ UNCHANGED <<policy, command, approved, prev, env_home, fs_canonical,
                   tracker_vars>>

CallIsResolvedPathAllowed ==
    /\ \E resolved \in PathPool :
           /\ path_arg' = resolved
           /\ ret' = is_resolved_path_allowed(policy, fs_canonical, resolved)
    /\ op' = "is_resolved_path_allowed"
    /\ UNCHANGED <<policy, command, approved, prev, env_home, fs_canonical,
                   tracker_vars>>

PathNext ==
    \/ CallIsPathAllowed
    \/ CallIsResolvedPathAllowed

-----------------------------------------------------------------------------
(* The calls one task makes on a policy's tracker *)

NoCommandCall ==
    /\ command = NoCommand
    /\ approved = FALSE
    /\ prev = FALSE

TrackerInit ==
    /\ policy \in TrackerPolicies
    /\ op = "idle"
    /\ ret = FALSE
    /\ NoCommandCall
    /\ NoPathCall
    /\ NoTrackerCall

\* The clock moves on by d seconds
Advance(d) ==
    /\ now + d <= MaxHours * Window
    /\ now' = now + d
    /\ UNCHANGED <<policy, command_vars, path_vars, actions, history_vars,
                   task_vars, clone_vars>>

\* Time passes: half an hour, or a second less
Tick == \E d \in {1799, Window \div 2} : Advance(d)

\* Time passes, half an hour at a time
HalfHour == Advance(Window \div 2)

\* A call that pushes onto the Vec was made at `now`
Recorded ==
    /\ calls' = calls + 1
    /\ first' = IF calls = 0 THEN now ELSE first
    /\ last' = now

\* self.tracker.record()
CallRecord ==
    /\ calls < MaxCalls
    /\ actions' = recorded(actions, now)
    /\ ret' = Len(recorded(actions, now))
    /\ op' = "record"
    /\ Recorded
    /\ UNCHANGED <<policy, command, approved, prev, path_vars, now, task_vars,
                   clone_vars>>

\* self.tracker.count()
CallCount ==
    /\ actions' = counted(actions, now)
    /\ ret' = Len(counted(actions, now))
    /\ op' = "count"
    /\ UNCHANGED <<policy, command, approved, prev, path_vars, now,
                   history_vars, task_vars, clone_vars>>

CallRecordAction ==
    /\ calls < MaxCalls
    /\ actions' = recorded(actions, now)
    /\ ret' = within_limit(policy, Len(recorded(actions, now)))
    /\ op' = "record_action"
    /\ Recorded
    /\ UNCHANGED <<policy, command, approved, prev, path_vars, now, task_vars,
                   clone_vars>>

CallIsRateLimited ==
    /\ actions' = counted(actions, now)
    /\ ret' = at_limit(policy, Len(counted(actions, now)))
    /\ op' = "is_rate_limited"
    /\ UNCHANGED <<policy, command, approved, prev, path_vars, now,
                   history_vars, task_vars, clone_vars>>

\* The Vec the clone's calls work on
clone_actions == IF alias = 1 THEN actions ELSE copy

\* let copy = self.tracker.clone(), once
CallClone ==
    /\ alias = 0
    /\ alias' = clone_target(1, 2)
    /\ copy' = IF clone_target(1, 2) = 2 THEN actions ELSE copy
    /\ op' = "clone"
    /\ ret' = FALSE
    /\ UNCHANGED <<policy, command, approved, prev, path_vars, actions, now,
                   history_vars, task_vars>>

\* The Vec the clone's Mutex guards becomes acts
CloneStores(acts) ==
    /\ actions' = IF alias = 1 THEN acts ELSE actions
    /\ copy' = IF alias = 1 THEN copy ELSE acts
    /\ UNCHANGED alias

\* copy.record()
CallRecordOnClone ==
    /\ alias # 0
    /\ Len(clone_actions) < MaxCalls
    /\ CloneStores(recorded(clone_actions, now))
    /\ ret' = Len(recorded(clone_actions, now))
    /\ op' = "copy.record"
    /\ UNCHANGED <<policy, command, approved, prev, path_vars, now,
                   history_vars, task_vars>>

\* copy.count()
CallCountOnClone ==
    /\ alias # 0
    /\ CloneStores(counted(clone_actions, now))
    /\ ret' = Len(counted(clone_actions, now))
    /\ op' = "copy.count"
    /\ UNCHANGED <<policy, command, approved, prev, path_vars, now,
                   history_vars, task_vars>>

TrackerNext ==
    \/ Tick
    \/ CallRecord
    \/ CallCount
    \/ CallRecordAction
    \/ CallIsRateLimited

\* The calls made on a tracker and on its clone
CloneNext ==
    \/ HalfHour
    \/ CallRecord
    \/ CallCount
    \/ CallClone
    \/ CallRecordOnClone
    \/ CallCountOnClone

-----------------------------------------------------------------------------
(* Tasks calling record_action(), is_rate_limited(), count() and clone() on
   one shared policy *)

ConcurrentInit ==
    /\ policy = [max_actions_per_hour |-> MaxLimit]
    /\ op = "idle"
    /\ ret = FALSE
    /\ NoCommandCall
    /\ NoPathCall
    /\ actions = <<>>
    /\ now = 0
    /\ calls = 0
    /\ first = 0
    /\ last = 0
    /\ pc = [t \in Tasks |-> "idle"]
    /\ mutex = 0
    /\ cutoff = [t \in Tasks |-> None]
    /\ returned = <<>>
    /\ poisoned = FALSE
    /\ limited = [t \in Tasks |-> None]
    /\ copy = <<>>
    /\ alias = 0

\* The calls of record() begun so far
Begun == calls + Cardinality({t \in Tasks : pc[t] \notin {"idle", "len"}})

\* Task t calls record_action(), which calls record() and waits for the lock
Begin(t) ==
    /\ pc[t] = "idle"
    /\ Begun < MaxCalls
    /\ pc' = [pc EXCEPT ![t] = "lock"]
    /\ UNCHANGED <<policy, command_vars, path_vars, actions, now, history_vars,
                   mutex, cutoff, returned, poisoned, limited, clone_vars>>

\* self.actions.lock().unwrap_or_else(PoisonError::into_inner); a lock() that
\* gave no guard would end the task
Lock(t) ==
    /\ pc[t] = "lock"
    /\ can_lock(mutex)
    /\ mutex' = IF lock_recovers(poisoned) THEN t ELSE mutex
    /\ pc' = [pc EXCEPT ![t] =
                 IF lock_recovers(poisoned) THEN "cutoff" ELSE "poison_error"]
    /\ UNCHANGED <<policy, command_vars, path_vars, actions, now, history_vars,
                   cutoff, returned, poisoned, limited, clone_vars>>

\* let cutoff = Instant::now().checked_sub(..).unwrap_or_else(Instant::now)
Cutoff(t) ==
    /\ pc[t] = "cutoff"
    /\ cutoff' = [cutoff EXCEPT ![t] = Some(cutoff_at(now))]
    /\ pc' = [pc EXCEPT ![t] = "retain"]
    /\ UNCHANGED <<policy, command_vars, path_vars, actions, now, history_vars,
                   mutex, returned, poisoned, limited, clone_vars>>

\* actions.retain(|t| *t > cutoff)
Retain(t) ==
    /\ pc[t] = "retain"
    /\ actions' = retain(actions, cutoff[t][1])
    /\ pc' = [pc EXCEPT ![t] = "push"]
    /\ UNCHANGED <<policy, command_vars, path_vars, now, history_vars, mutex,
                   cutoff, returned, poisoned, limited, clone_vars>>

\* actions.push(Instant::now())
Push(t) ==
    /\ pc[t] = "push"
    /\ actions' = Append(actions, now)
    /\ Recorded
    /\ pc' = [pc EXCEPT ![t] = "len"]
    /\ UNCHANGED <<policy, command_vars, path_vars, now, mutex, cutoff,
                   returned, poisoned, limited, clone_vars>>

\* What a completed record_action() leaves behind: the task, the count
\* record() returned and the bool record_action() made of it, the instant it
\* pushed, the pushes made on the tracker so far, what is_rate_limited() had
\* told the task before, and whether the Mutex was poisoned
Completed(t) ==
    [task |-> t,
     count |-> Len(actions),
     allowed |-> within_limit(policy, Len(actions)),
     at |-> last,
     pushes |-> calls,
     asked |-> limited[t],
     poisoned |-> poisoned]

\* actions.len(), the guard is dropped, and record_action() compares
ReturnLen(t) ==
    /\ pc[t] = "len"
    /\ ret' = Len(actions)
    /\ op' = "record"
    /\ returned' = Append(returned, Completed(t))
    /\ mutex' = 0
    /\ cutoff' = [cutoff EXCEPT ![t] = None]
    /\ limited' = [limited EXCEPT ![t] = None]
    /\ pc' = [pc EXCEPT ![t] = "idle"]
    /\ UNCHANGED <<policy, command, approved, prev, path_vars, actions, now,
                   history_vars, poisoned, clone_vars>>

\* count(), which holds the lock from its first statement to its last
LockedCount ==
    /\ can_lock(mutex)
    /\ actions' = IF lock_recovers(poisoned) THEN counted(actions, now)
                  ELSE actions
    /\ ret' = IF lock_recovers(poisoned) THEN Len(counted(actions, now))
              ELSE FALSE
    /\ op' = IF lock_recovers(poisoned) THEN "count" ELSE "poison_error"
    /\ UNCHANGED <<policy, command, approved, prev, path_vars, now,
                   history_vars, task_vars, clone_vars>>

\* Task t, between two calls of record_action(), calls is_rate_limited() and
\* keeps the answer
AskLimited(t) ==
    /\ pc[t] = "idle"
    /\ limited[t] = None
    /\ Begun < MaxCalls
    /\ can_lock(mutex)
    /\ lock_recovers(poisoned)
    /\ actions' = counted(actions, now)
    /\ limited' = [limited EXCEPT ![t] =
                      Some([answer |-> at_limit(policy,
                                                Len(counted(actions, now))),
                            pushes |-> calls])]
    /\ UNCHANGED <<policy, command_vars, path_vars, now, history_vars, pc,
                   mutex, cutoff, returned, poisoned, clone_vars>>

ConcurrentNext ==
    \/ HalfHour
    \/ LockedCount
    \/ \E t \in Tasks :
           \/ Begin(t)
           \/ Lock(t)
           \/ Cutoff(t)
           \/ Retain(t)
           \/ Push(t)
           \/ ReturnLen(t)

\* The same tasks, each of which may ask is_rate_limited() before it calls
\* record_action()
LimitedNext ==
    \/ HalfHour
    \/ \E t \in Tasks :
           \/ AskLimited(t)
           \/ Begin(t)
           \/ Lock(t)
           \/ Cutoff(t)
           \/ Retain(t)
           \/ Push(t)
           \/ ReturnLen(t)

-----------------------------------------------------------------------------
(* The same tasks, any of which may panic while it holds the lock *)

\* Task t panics inside record(): the guard is dropped as the stack unwinds
\* and marks the Mutex poisoned
Panic(t) ==
    /\ pc[t] \in {"cutoff", "retain", "push", "len"}
    /\ poisoned' = TRUE
    /\ mutex' = 0
    /\ cutoff' = [cutoff EXCEPT ![t] = None]
    /\ limited' = [limited EXCEPT ![t] = None]
    /\ pc' = [pc EXCEPT ![t] = "idle"]
    /\ UNCHANGED <<policy, command_vars, path_vars, actions, now, history_vars,
                   returned, clone_vars>>

\* clone(), which holds the lock while it copies the Vec
LockedClone ==
    /\ alias = 0
    /\ can_lock(mutex)
    /\ alias' = IF lock_recovers(poisoned) THEN clone_target(1, 2) ELSE alias
    /\ copy' = IF lock_recovers(poisoned) /\ clone_target(1, 2) = 2
               THEN actions ELSE copy
    /\ op' = IF lock_recovers(poisoned) THEN "clone" ELSE "poison_error"
    /\ ret' = FALSE
    /\ UNCHANGED <<policy, command, approved, prev, path_vars, actions, now,
                   history_vars, task_vars>>

PoisonNext ==
    \/ HalfHour
    \/ LockedCount
    \/ LockedClone
    \/ \E t \in Tasks :
           \/ Begin(t)
           \/ Lock(t)
           \/ Cutoff(t)
           \/ Retain(t)
           \/ Push(t)
           \/ ReturnLen(t)
           \/ Panic(t)

-----------------------------------------------------------------------------
(* ComputerTool::execute on a policy *)

\* The actions execute dispatches to a handler
ScreenActions ==
    {"screenshot", "click", "double_click", "right_click", "type", "key",
     "scroll", "open_app", "cursor_position"}

\* A ToolResult that reports an error; no handler ran
err_result(msg) == [dispatched |-> "none", error |-> msg]

\* The match on the action name; a handler's own outcome is not modelled
dispatch(action) ==
    IF action \in ScreenActions
    THEN [dispatched |-> action, error |-> ""]
    ELSE IF action = ""
         THEN err_result("Missing required parameter: action")
         ELSE err_result("Unknown action")

\* What execute returns; the bool record_action() returned is not read
execute(p, action, is_recorded_ok) ==
    IF ~can_act(p)
    THEN err_result("Action blocked: autonomy is read-only")
    ELSE dispatch(action)

ToolInit ==
    /\ policy \in [autonomy : AutonomyLevel,
                   max_actions_per_hour : 0..MaxLimit]
    /\ op = "idle"
    /\ ret = FALSE
    /\ NoCommandCall
    /\ NoPathCall
    /\ NoTrackerCall

\* execute(args), with args.action one of the nine actions, missing ("") or
\* unknown
CallExecute ==
    \E action \in ScreenActions \cup {"", "drag"} :
        /\ calls < MaxCalls
        /\ IF can_act(policy)
           THEN /\ actions' = recorded(actions, now)
                /\ Recorded
           ELSE UNCHANGED <<actions, history_vars>>
        /\ ret' = execute(policy, action,
                          within_limit(policy, Len(recorded(actions, now))))
        /\ op' = "execute"
        /\ UNCHANGED <<policy, command, approved, prev, path_vars, now,
                       task_vars, clone_vars>>

ToolNext ==
    \/ HalfHour
    \/ CallExecute

-----------------------------------------------------------------------------
(* Properties *)

Validated == op \in {"validate_command_execution", "retry"}

\* A backtick, `$(`, `${` or `>` somewhere in the raw text
RawMarker(cmd) ==
    \E i \in 1..Len(cmd) :
        \/ cmd[i] = BACKTICK
        \/ cmd[i] = ">"
        \/ cmd[i] = "$" /\ i < Len(cmd) /\ cmd[i + 1] \in {"(", "{"}

\* C1: a catastrophic command is never permitted: validate_command_execution
\* returns an error for it, whatever approved, the autonomy level, the
\* allowlist and require_approval_for_medium_risk are
C1_CatastrophicNeverOk ==
    (Validated /\ is_catastrophic(command)) => ret.kind # "Ok"

\* C1 witness: an allowlisted catastrophic command, approved, under Full
\* autonomy, is refused as catastrophic
C1_Witness ==
    /\ op = "validate_command_execution"
    /\ approved
    /\ policy.autonomy = "Full"
    /\ command = Seg_rm_rf_root
    /\ is_catastrophic(command)
    /\ ret = Catastrophic

\* The base command and arguments the risk classifier extracts make the
\* segment one of the listed catastrophic forms
ClaimedCatastrophicParts(p) ==
    /\ p.present
    /\ \/ p.base \in PowerBases
       \/ starts_with(p.base, <<"m", "k", "f", "s">>)
       \/ p.base = <<"r", "m">> /\ has_rf(p.args) /\ targets_root(p.args)

ClaimedCatastrophic(cmd) ==
    \E i \in 1..Len(segments(cmd)) :
        ClaimedCatastrophicParts(risk_parts(segments(cmd)[i]))

\* C2: is_catastrophic is true of every command with a segment whose base
\* command (env assignments skipped, directory stripped, lower case) is
\* shutdown, reboot, halt or poweroff, starts with mkfs, or is rm with a
\* recursive-force flag and a / or /* argument
C2_EveryListedBaseIsCatastrophic ==
    (op = "is_catastrophic" /\ ClaimedCatastrophic(command)) => ret = TRUE

\* C3: under ReadOnly autonomy is_command_allowed and can_act are false and
\* validate_command_execution returns PolicyDenied, for every command,
\* allowlist and approved
C3_ReadOnlyDeniesAll ==
    policy.autonomy = "ReadOnly" =>
        /\ op = "is_command_allowed" => ret = FALSE
        /\ op = "can_act" => ret = FALSE
        /\ Validated => ret = PolicyDenied

\* C3 witness: an allowlisted, approved ls is denied under ReadOnly
C3_Witness ==
    /\ policy.autonomy = "ReadOnly"
    /\ op = "validate_command_execution"
    /\ approved
    /\ command = Seg_ls
    /\ Seg_ls \in policy.allowed_commands
    /\ ret = PolicyDenied

\* C4: a command with a backtick, `$(`, `${` or `>` anywhere in its text is
\* not allowed and validates to PolicyDenied, whatever the allowlist, the
\* autonomy level and approved are
C4_InjectionMarkersDenied ==
    RawMarker(command) =>
        /\ op = "is_command_allowed" => ret = FALSE
        /\ Validated => ret = PolicyDenied

\* C4 witness: `ls ${` with ls allowlisted under Full autonomy is refused
C4_Witness ==
    /\ op = "is_command_allowed"
    /\ command = <<"l", "s", " ", "$", "{">>
    /\ policy.autonomy = "Full"
    /\ Seg_ls \in policy.allowed_commands
    /\ ret = FALSE

\* Some segment has a base command
SomeBase(cmd) ==
    \E i \in 1..Len(segments(cmd)) : allow_base(segments(cmd)[i]) # <<>>

\* Every base command of a segment is on the allowlist
EveryBaseAllowed(p, cmd) ==
    \A i \in 1..Len(segments(cmd)) :
        \/ allow_base(segments(cmd)[i]) = <<>>
        \/ allow_base(segments(cmd)[i]) \in p.allowed_commands

\* C5: under Supervised or Full autonomy a command free of injection markers
\* is allowed iff some segment has a base command and every segment's base
\* command is, case-sensitively, on the allowlist
C5_AllowedIffEveryBaseAllowed ==
    (op = "is_command_allowed" /\ policy.autonomy # "ReadOnly"
        /\ ~RawMarker(command)) =>
        (ret <=> (SomeBase(command) /\ EveryBaseAllowed(policy, command)))

\* C6: a command none of whose segments has a non-empty base command is not
\* allowed, and with an empty allowlist no command is
C6_NoBaseNoPermission ==
    op = "is_command_allowed" =>
        /\ ~SomeBase(command) => ret = FALSE
        /\ policy.allowed_commands = {} => ret = FALSE

\* The verdicts in the order the claim gives them
ClaimedVerdict(p, cmd, is_approved) ==
    IF ~is_command_allowed(p, cmd) THEN PolicyDenied
    ELSE IF is_catastrophic(cmd) THEN Catastrophic
    ELSE IF /\ command_risk_level(cmd) = "High"
            /\ p.autonomy = "Supervised"
            /\ ~is_approved
         THEN ApprovalRequired("High")
    ELSE IF /\ command_risk_level(cmd) = "Medium"
            /\ p.autonomy = "Supervised"
            /\ p.require_approval_for_medium_risk
            /\ ~is_approved
         THEN ApprovalRequired("Medium")
    ELSE Ok(command_risk_level(cmd))

\* C7: validate_command_execution returns the first applicable verdict of:
\* PolicyDenied when the allowlist check fails, Catastrophic, ApprovalRequired
\* (High), ApprovalRequired(Medium), Ok(risk)
C7_VerdictOrder ==
    Validated => ret = ClaimedVerdict(policy, command, approved)

\* C7 witness: `ls&&rm -rf /` with only ls and cp allowlisted is PolicyDenied
\* although it is catastrophic and High risk
C7_Witness ==
    /\ op = "validate_command_execution"
    /\ policy.autonomy = "Supervised"
    /\ policy.allowed_commands = {Seg_ls, <<"c", "p">>}
    /\ command = Seg_ls \o <<"&", "&">> \o Seg_rm_rf_root
    /\ is_catastrophic(command)
    /\ command_risk_level(command) = "High"
    /\ ret = PolicyDenied

\* C8: a call answered ApprovalRequired(r) without approval is answered Ok(r)
\* when repeated with approval, and one answered Ok(r) stays Ok(r)
C8_ApprovalRetrySucceeds ==
    op = "retry" =>
        /\ prev.kind = "ApprovalRequired" => ret = Ok(prev.risk)
        /\ prev.kind = "Ok" => ret = prev

\* C8 witness: ApprovalRequired(Medium), then Ok(Medium) on the approved retry
C8_Witness ==
    /\ op = "retry"
    /\ prev = ApprovalRequired("Medium")
    /\ ret = Ok("Medium")

\* C9: under Full autonomy validate_command_execution never asks for approval
\* and answers the same with and without it: Ok(risk) for an allowed command
\* that is not catastrophic, PolicyDenied for one that is not allowed,
\* Catastrophic for an allowed catastrophic one
C9_FullNeverAsksApproval ==
    (policy.autonomy = "Full" /\ Validated) =>
        /\ ret.kind # "ApprovalRequired"
        /\ op = "retry" => ret = prev
        /\ (is_command_allowed(policy, command) /\ ~is_catastrophic(command))
               => ret = Ok(command_risk_level(command))
        /\ ~is_command_allowed(policy, command) => ret = PolicyDenied
        /\ (is_command_allowed(policy, command) /\ is_catastrophic(command))
               => ret = Catastrophic

\* C9 witness: an allowlisted High-risk command runs unapproved under Full
C9_Witness ==
    /\ policy.autonomy = "Full"
    /\ op = "retry"
    /\ command = Seg_nc
    /\ prev = Ok("High")
    /\ ret = Ok("High")

\* The segments that are High risk on their own
HighSegments == {s \in SegmentPool : command_risk_level(s) = "High"}

\* The commands in which a High-risk segment is joined with other segments,
\* before or after it
HighJoins ==
    {j[1] \o j[2] \o j[3] :
        j \in ((JoinPool \cap HighSegments) \X Separators \X JoinPool)
                \cup (JoinPool \X Separators \X (JoinPool \cap HighSegments))}
        \cup UNION {Joined(CorePool, CoreSeparators, n)
                        \ Joined(CorePool \ HighSegments, CoreSeparators, n) :
                            n \in 3..MaxSegments}

\* C10: a High-risk segment joined with any other segments by any separators
\* is a High-risk command
C10_HighRiskSurvivesJoining ==
    (op = "command_risk_level" /\ command \in HighJoins) => ret = "High"

\* The base command is in the high-risk set or matches mkfs*, or the segment
\* text contains "rm -rf /" or "rm -fr /"
ClaimedHighParts(p) ==
    /\ p.present
    /\ \/ p.base \in HighRiskBases
       \/ starts_with(p.base, <<"m", "k", "f", "s">>)
       \/ contains(p.joined_segment, <<"r", "m", " ", "-", "r", "f", " ", "/">>)
       \/ contains(p.joined_segment, <<"r", "m", " ", "-", "f", "r", " ", "/">>)

\* git, npm, pnpm, yarn or cargo with a listed first argument, or touch,
\* mkdir, mv, cp, ln
ClaimedMediumParts(p) ==
    /\ p.present
    /\ \/ p.base = <<"g", "i", "t">> /\ p.args # <<>> /\ p.args[1] \in GitVerbs
       \/ p.base \in {<<"n", "p", "m">>, <<"p", "n", "p", "m">>, <<"y", "a", "r", "n">>}
            /\ p.args # <<>> /\ p.args[1] \in NodeVerbs
       \/ p.base = <<"c", "a", "r", "g", "o">> /\ p.args # <<>> /\ p.args[1] \in CargoVerbs
       \/ p.base \in {<<"t", "o", "u", "c", "h">>, <<"m", "k", "d", "i", "r">>, <<"m", "v">>, <<"c", "p">>, <<"l", "n">>}

ClaimedRisk(segs) ==
    IF \E i \in 1..Len(segs) : ClaimedHighParts(risk_parts(segs[i]))
        THEN "High"
    ELSE IF \E i \in 1..Len(segs) : ClaimedMediumParts(risk_parts(segs[i]))
        THEN "Medium"
    ELSE "Low"

\* C11: command_risk_level is High when a segment's base command is in the
\* high-risk set or matches mkfs*, or its text contains "rm -rf /" or
\* "rm -fr /"; else Medium when a segment is git/npm/pnpm/yarn/cargo with a
\* listed verb or touch, mkdir, mv, cp, ln; else Low
C11_ThreeTierClassification ==
    op = "command_risk_level" => ret = ClaimedRisk(segments(command))

\* Some piece of the path between separators is `..`
HasDotDotPiece(p) ==
    \E i \in 1..Len(split(p, "/")) : split(p, "/")[i] = <<".", ".">>

\* `..%2f` or `%2f..` in any letter case, somewhere in the text
HasEncodedTraversal(p) ==
    \E i \in 1..Len(p) :
        /\ i + 4 <= Len(p)
        /\ SubSeq(p, i, i + 4) \in
               {<<".", ".", "%", "2", "f">>, <<".", ".", "%", "2", "F">>, <<"%", "2", "f", ".", ".">>, <<"%", "2", "F", ".", ".">>}

\* C12: is_path_allowed is false of a path with a `..` component, a NUL or an
\* encoded traversal, whatever workspace_only and forbidden_paths are, and a
\* `..` inside a component name alone does not make it false
C12_TraversalMarkersDenied ==
    op = "is_path_allowed" =>
        /\ (\/ HasDotDotPiece(path_arg)
            \/ \E i \in 1..Len(path_arg) : path_arg[i] = NUL
            \/ HasEncodedTraversal(path_arg)) => ret = FALSE
        /\ path_arg = <<"a", ".", ".", "b">> => ret = TRUE

\* C12 witness: a/../x is refused with workspace_only off and nothing forbidden
C12_Witness ==
    /\ op = "is_path_allowed"
    /\ path_arg = <<"a", "/", ".", ".", "/", "x">>
    /\ ~policy.workspace_only
    /\ policy.forbidden_paths = {}
    /\ ret = FALSE

\* No `..` component, no NUL, no encoded traversal
NoTraversalMarker(p) ==
    /\ ~HasDotDotPiece(p)
    /\ \A i \in 1..Len(p) : p[i] # NUL
    /\ ~HasEncodedTraversal(p)

IsNamePiece(piece) == piece # <<>> /\ piece # <<".">>

\* The names along a path
NamePieces(p) == SelectSeq(split(p, "/"), IsNamePiece)

\* base leads to p name by name, from the same starting point
LeadsTo(base, p) ==
    /\ is_absolute(base) <=> is_absolute(p)
    /\ Len(NamePieces(base)) <= Len(NamePieces(p))
    /\ SubSeq(NamePieces(p), 1, Len(NamePieces(base))) = NamePieces(base)

\* `~/` replaced by the home directory, when there is one
HomeExpanded(h, p) ==
    IF starts_with(p, <<"~", "/">>) /\ h # NoHome
    THEN h \o <<"/">> \o SubSeq(p, 3, Len(p))
    ELSE p

ClaimedForbidden(pol, h, p) ==
    \E f \in pol.forbidden_paths :
        LeadsTo(HomeExpanded(h, f), HomeExpanded(h, p))

\* C13: with workspace_only set is_path_allowed is false of every absolute
\* path and every path starting with `~/`, and true of a relative path without
\* traversal markers that no forbidden_paths entry leads to
C13_WorkspaceOnlyRejectsAbsoluteAndHome ==
    (op = "is_path_allowed" /\ policy.workspace_only) =>
        /\ is_absolute(path_arg) => ret = FALSE
        /\ starts_with(path_arg, <<"~", "/">>) => ret = FALSE
        /\ (/\ ~is_absolute(path_arg)
            /\ ~starts_with(path_arg, <<"~", "/">>)
            /\ NoTraversalMarker(path_arg)
            /\ ~ClaimedForbidden(policy, env_home, path_arg)) => ret = TRUE

\* C14: with workspace_only off, is_path_allowed is false of a path without
\* traversal markers iff a forbidden_paths entry, with the same `~/`
\* expansion, leads to it component by component
C14_ForbiddenIsComponentPrefix ==
    (op = "is_path_allowed" /\ ~policy.workspace_only
        /\ NoTraversalMarker(path_arg)) =>
        (ret = FALSE <=> ClaimedForbidden(policy, env_home, path_arg))

\* The canonical workspace_dir, or workspace_dir as written when it has none
ClaimedRoot ==
    IF fs_canonical # CanonicalizeFailed THEN fs_canonical
    ELSE policy.workspace_dir

\* C15: is_resolved_path_allowed is true iff the workspace root leads to the
\* path component by component; `/` and a sibling directory whose name starts
\* with the workspace's name are refused
C15_ResolvedInsideWorkspaceRoot ==
    op = "is_resolved_path_allowed" =>
        /\ ret <=> LeadsTo(ClaimedRoot, path_arg)
        /\ path_arg \in {Path_root, <<"/", "w", "2", "/", "x">>} => ret = FALSE

\* C15 witness: with workspace_dir /l canonicalized to /w, /w/x is accepted
C15_Witness ==
    /\ op = "is_resolved_path_allowed"
    /\ policy.workspace_dir = <<"/", "l">>
    /\ fs_canonical = <<"/", "w">>
    /\ path_arg = Path_w_x
    /\ ret = TRUE

\* C16 as stated: whatever is_resolved_path_allowed accepts, is_path_allowed
\* accepts
C16_ResolvedImpliesLexical ==
    (op = "is_resolved_path_allowed" /\ ret = TRUE) =>
        is_path_allowed(policy, env_home, path_arg)

\* No forbidden_paths entry leads to the workspace root or lies under it
RootClearOfForbidden ==
    \A f \in policy.forbidden_paths :
        /\ ~LeadsTo(HomeExpanded(env_home, f), ClaimedRoot)
        /\ ~LeadsTo(ClaimedRoot, HomeExpanded(env_home, f))

\* C16 amended: with workspace_only off and no forbidden_paths entry leading
\* to the workspace root or lying under it, an absolute path without
\* traversal markers that is_resolved_path_allowed accepts is accepted by
\* is_path_allowed
C16_ResolvedImpliesLexicalWhenUnrestricted ==
    (/\ op = "is_resolved_path_allowed"
     /\ ret = TRUE
     /\ ~policy.workspace_only
     /\ RootClearOfForbidden
     /\ is_absolute(path_arg)
     /\ NoTraversalMarker(path_arg)) =>
        is_path_allowed(policy, env_home, path_arg)

\* C16 witness: /w/x is inside the workspace /w and, with workspace_only off
\* and only /etc and ~/.ssh forbidden, passes both checks
C16_Witness ==
    /\ op = "is_resolved_path_allowed"
    /\ ret = TRUE
    /\ path_arg = Path_w_x
    /\ ~policy.workspace_only
    /\ policy.forbidden_paths # {}
    /\ RootClearOfForbidden
    /\ is_path_allowed(policy, env_home, path_arg)

\* Every recording call so far was made less than an hour before now
WithinTheHour == calls > 0 /\ now - first < Window

\* C17: record() calls made within one hour on a new tracker return 1, 2, ...
\* in order, a count() within that hour returns their number, and a new
\* tracker's count() is 0
C17_RecordReturnsCallNumber ==
    /\ (op = "record" /\ WithinTheHour) => ret = calls
    /\ (op = "count" /\ WithinTheHour) => ret = calls
    /\ (op = "count" /\ calls = 0) => ret = 0

\* C17 witness: the third record() within the hour, half an hour after the
\* first, returns 3
C17_Witness ==
    /\ op = "record"
    /\ calls = 3
    /\ now - first = 1800
    /\ ret = 3

\* C18: with max_actions_per_hour = M, the k-th recording call within one hour
\* on a fresh policy, made as record_action(), returns true iff k <= M; a
\* refused call is recorded all the same, so later calls in the hour are
\* refused too, and for M = 0 every call is refused
C18_RecordActionWithinLimit ==
    (op = "record_action" /\ WithinTheHour)
        => (ret <=> calls <= policy.max_actions_per_hour)

\* C18 witness: with a limit of 2 the third call within the hour is refused
C18_Witness ==
    /\ op = "record_action"
    /\ policy.max_actions_per_hour = 2
    /\ calls = 3
    /\ WithinTheHour
    /\ ret = FALSE
    /\ Len(actions) = 3

\* A full hour has passed since the most recent recording call
HourSinceLast == calls > 0 /\ now - last >= Window

\* C20: once a full hour has passed since the most recent record(), a count()
\* made then returns 0, an is_rate_limited() made then returns false when
\* max_actions_per_hour >= 1, and the next record_action() returns true when
\* max_actions_per_hour >= 1
C20_RateLimitIsTransient ==
    [][(HourSinceLast /\ now' = now) =>
           /\ op' = "count" => ret' = 0
           /\ (op' = "is_rate_limited" /\ policy.max_actions_per_hour >= 1)
                  => ret' = FALSE
           /\ (op' = "record_action" /\ policy.max_actions_per_hour >= 1)
                  => ret' = TRUE]_vars

\* C20 witness: a policy with a limit of 1 that refused a call accepts the
\* next one exactly an hour later
C20_Witness ==
    /\ op = "record_action"
    /\ policy.max_actions_per_hour = 1
    /\ calls = 3
    /\ now - first = Window
    /\ now = last
    /\ actions = <<now>>
    /\ ret = TRUE

\* No task is inside record()
AllReturned == \A t \in Tasks : pc[t] = "idle"

\* The values the completed record() calls returned
ReturnedCounts == {returned[i].count : i \in 1..Len(returned)}

\* C19: with record() called by several tasks at once within one hour, the K
\* completed calls returned exactly the values 1..K, each once, and a count()
\* made after all of them within the hour returns K
C19_NoLostUpdate ==
    (calls = 0 \/ WithinTheHour) =>
        /\ ReturnedCounts = 1..Len(returned)
        /\ (op = "count" /\ AllReturned) => ret = Len(returned)

\* C19 witness: three calls by two tasks, the second task's call completing
\* between the first task's two, returned 1, 2, 3 and count() then returns 3
C19_Witness ==
    /\ Len(returned) = 3
    /\ returned[1].task = 1
    /\ returned[2].task = 2
    /\ returned[3].task = 1
    /\ ReturnedCounts = {1, 2, 3}
    /\ WithinTheHour
    /\ now > first
    /\ AllReturned
    /\ op = "count"
    /\ ret = 3

\* C26: every catastrophic command is classified as High risk
C26_CatastrophicIsHigh ==
    (op = "is_catastrophic" /\ ret = TRUE)
        => command_risk_level(command) = "High"

\* The settings validate_command_execution is claimed not to read, apart from
\* block_high_risk_commands: the cost cap, the rate limit, the path settings
\* and the tracker contents, as Default gives them and at other values
UnreadSettings ==
    { [max_cost_per_day_cents |-> 500,
       max_actions_per_hour |-> 100,
       workspace_only |-> FALSE,
       forbidden_paths |-> {},
       tracker |-> <<>>],
      [max_cost_per_day_cents |-> 0,
       max_actions_per_hour |-> 0,
       workspace_only |-> TRUE,
       forbidden_paths |-> {Path_root},
       tracker |-> <<0, 0>>] }

\* The policies that agree with p on autonomy, allowed_commands and
\* require_approval_for_medium_risk
OtherSettings(p) ==
    { [autonomy |-> p.autonomy,
       allowed_commands |-> p.allowed_commands,
       require_approval_for_medium_risk |-> p.require_approval_for_medium_risk,
       block_high_risk_commands |-> b,
       max_cost_per_day_cents |-> u.max_cost_per_day_cents,
       max_actions_per_hour |-> u.max_actions_per_hour,
       workspace_only |-> u.workspace_only,
       forbidden_paths |-> u.forbidden_paths,
       tracker |-> u.tracker] : b \in BOOLEAN, u \in UnreadSettings }

\* C25: the verdict of validate_command_execution depends on the command,
\* approved, autonomy, allowed_commands and require_approval_for_medium_risk
\* only: a policy that differs in block_high_risk_commands, the cost cap, the
\* rate limit, the path settings or the tracker contents gives the same
\* verdict
C25_VerdictReadsFiveInputs ==
    Validated =>
        \A q \in OtherSettings(policy) :
            validate_command_execution(q, command, approved) = ret

\* C25 witness: with block_high_risk_commands = true an approved, allowlisted
\* nc is answered Ok(High)
C25_Witness ==
    /\ op = "validate_command_execution"
    /\ policy.block_high_risk_commands
    /\ policy.autonomy = "Supervised"
    /\ command = Seg_nc
    /\ approved
    /\ ret = Ok("High")

\* What the classifier extracts from each segment
PartsOf(segs) == [i \in 1..Len(segs) |-> risk_parts(segs[i])]

IsForcedRemoval(p) ==
    /\ p.present
    /\ p.base = <<"r", "m">>
    /\ has_rf(p.args)
    /\ \A j \in 1..Len(p.args) : p.args[j] \notin {<<"/">>, <<"/", "*">>}

\* There are rm segments, and each of them carries a recursive-force flag and
\* no argument equal to / or /*
RmForceNotRoot(parts) ==
    /\ \E i \in 1..Len(parts) : IsForcedRemoval(parts[i])
    /\ \A i \in 1..Len(parts) :
           (parts[i].present /\ parts[i].base = <<"r", "m">>)
               => IsForcedRemoval(parts[i])

\* A catastrophic check other than the one on rm matches: the fork-bomb
\* signature, dd to a device file, a power command or an mkfs variant
OtherCatastrophic(lower, parts) ==
    \/ contains(lower, <<":", "(", ")", "{", ":", "|", ":", "&", "}", ";", ":">>)
    \/ /\ contains(lower, <<"d", "d", " ">>)
       /\ contains(lower, <<"o", "f", "=", "/", "d", "e", "v", "/">>)
    \/ \E i \in 1..Len(parts) :
           /\ parts[i].present
           /\ \/ parts[i].base \in PowerBases
              \/ starts_with(parts[i].base, <<"m", "k", "f", "s">>)

IsForcedRemovalCommand(lower, parts) ==
    RmForceNotRoot(parts) /\ ~OtherCatastrophic(lower, parts)

\* The call was made on a command of the kind C23 is about
ForcedRemoval ==
    /\ command # NoCommand
    /\ IsForcedRemovalCommand(to_ascii_lowercase(command),
                               PartsOf(segments(command)))

\* C23: a command whose rm segments carry a recursive-force flag but no
\* argument equal to / or /*, and that matches no other catastrophic check,
\* is not catastrophic and is High risk; when the allowlist lets it through
\* under Supervised autonomy, validate_command_execution answers
\* ApprovalRequired(High) without approval and Ok(High) with it
C23_ForcedRemovalIsHighNotCatastrophic ==
    /\ (op = "is_catastrophic" /\ ForcedRemoval) => ret = FALSE
    /\ (op = "command_risk_level" /\ ForcedRemoval) => ret = "High"
    /\ (/\ Validated
        /\ ForcedRemoval
        /\ policy.autonomy = "Supervised"
        /\ is_command_allowed(policy, command))
           => ret = IF approved THEN Ok("High") ELSE ApprovalRequired("High")

\* C23 witness: `rm -rf /x`, refused for want of approval, is answered
\* Ok(High) on the approved retry
C23_Witness ==
    /\ op = "retry"
    /\ policy.autonomy = "Supervised"
    /\ command = Seg_rm_rf_x
    /\ ForcedRemoval
    /\ prev = ApprovalRequired("High")
    /\ ret = Ok("High")

\* What count() would return on the original and on the clone
OriginalCount == Len(counted(actions, now))

CloneCount == Len(counted(clone_actions, now))

\* C21: right after clone() the original and the clone report the same
\* count, and a record() on either one leaves the other's count as it was
C21_CloneIsIndependent ==
    /\ [](op = "clone" => OriginalCount = CloneCount)
    /\ [][(alias # 0 /\ now' = now) =>
              /\ op' = "record"
                     => (actions' # actions /\ CloneCount' = CloneCount)
              /\ op' = "copy.record"
                     => (clone_actions' # clone_actions
                          /\ OriginalCount' = OriginalCount)]_vars

\* C21 witness: cloned at a count of 1, the original has since recorded twice
\* and the clone once: the original counts 3, the clone 2
C21_Witness ==
    /\ alias = 2
    /\ op = "copy.record"
    /\ ret = 2
    /\ Len(actions) = 3
    /\ Len(copy) = 2
    /\ WithinTheHour

\* The clock values a later call can be made at
LaterClock(t) == {t + a * 1799 + b * 1800 : a, b \in 0..MaxHours}

\* Every timestamp of the second Vec is one of the first
OnlyFrom(acts, kept) ==
    /\ Len(kept) <= Len(acts)
    /\ \A j \in 1..Len(kept) : \E i \in 1..Len(acts) : acts[i] = kept[j]

\* Every timestamp of the first Vec less than an hour old at t is in the
\* second
YoungKept(acts, kept, t) ==
    \A i \in 1..Len(acts) :
        t - acts[i] < Window => \E j \in 1..Len(kept) : kept[j] = acts[i]

\* C24: count() and is_rate_limited() add no timestamp and change no
\* configuration field; they drop only timestamps at least an hour old, so a
\* later record() returns what it would have returned without them; and only
\* record() and record_action() make the Vec longer
C24_OnlyRecordAddsEvents ==
    [][/\ policy' = policy
       /\ Len(actions') > Len(actions) => op' \in {"record", "record_action"}
       /\ (now' = now /\ op' \in {"count", "is_rate_limited"}) =>
              /\ OnlyFrom(actions, actions')
              /\ YoungKept(actions, actions', now)
              /\ \A t \in LaterClock(now) :
                     Len(recorded(actions', t)) = Len(recorded(actions, t))]_vars

\* C24 witness: a count() an hour after the first of two record() calls has
\* dropped the first and kept the second
C24_Witness ==
    /\ op = "count"
    /\ calls = 2
    /\ now - first = Window
    /\ now - last = 1800
    /\ actions = <<last>>
    /\ ret = 1

RecoveredWithinTheHour(r) == r.poisoned /\ r.at - first < Window

\* C22: once a task has panicked while holding the lock, no record(), count()
\* or clone() fails on the poison or finds the lock still held by the task
\* that panicked, and each works on the instants pushed so far, those of the
\* panicked task included: within the hour record() returns the number of
\* pushes made, count() returns it too, and clone() copies the list
C22_PoisonIsRecovered ==
    /\ [](/\ op # "poison_error"
          /\ \A t \in Tasks : pc[t] # "poison_error"
          /\ mutex # 0 => pc[mutex] \in {"cutoff", "retain", "push", "len"}
          /\ \A i \in 1..Len(returned) :
                 RecoveredWithinTheHour(returned[i]) =>
                     returned[i].count = returned[i].pushes)
    /\ [][(poisoned /\ pc' = pc /\ now' = now) =>
              /\ (alias' = alias /\ WithinTheHour /\ op' = "count") =>
                     ret' = calls
              /\ alias' # alias => (op' = "clone" /\ copy' = actions)]_vars

\* C22 witness: a task panicked after its push; the other task's record()
\* then returned 2, clone() copied both instants and count() returned 2
C22_Witness ==
    /\ poisoned
    /\ Len(returned) = 1
    /\ returned[1].poisoned
    /\ returned[1].count = 2
    /\ alias = 2
    /\ Len(copy) = 2
    /\ op = "count"
    /\ ret = 2

\* The completed record_action() calls that returned true and pushed their
\* instant in the hour that begins at instant t
AllowedInHourFrom(t) ==
    {j \in 1..Len(returned) :
        /\ returned[j].allowed
        /\ t <= returned[j].at
        /\ returned[j].at < t + Window}

\* C27: however the tasks' record_action() calls interleave, in no one-hour
\* window (an instant and the 3600 seconds after it, the end excluded) did
\* more than max_actions_per_hour of the calls return true
C27_AtMostLimitAllowedPerHour ==
    \A i \in 1..Len(returned) :
        Cardinality(AllowedInHourFrom(returned[i].at))
            <= policy.max_actions_per_hour

\* C27 witness: two tasks made three calls within half an hour, the second
\* task's between the first task's two; the first two returned true and the
\* third, over the limit of two, false
C27_Witness ==
    /\ policy.max_actions_per_hour = 2
    /\ Len(returned) = 3
    /\ returned[1].task = 1 /\ returned[1].allowed /\ returned[1].at = 0
    /\ returned[2].task = 2 /\ returned[2].allowed
    /\ returned[3].task = 1 /\ ~returned[3].allowed
    /\ returned[3].at = Window \div 2

\* A completed record_action() whose task had been told by is_rate_limited()
\* that the policy was not rate-limited
ToldNotLimited(r) == r.asked # None /\ ~r.asked[1].answer

\* No push was made on the tracker between the task's is_rate_limited() and
\* its own push
NoPushBetween(r) == r.pushes = r.asked[1].pushes + 1

\* C29: a task that is_rate_limited() answered false gets true from its next
\* record_action(), whatever other tasks recorded in between
C29_NotLimitedThenAllowed ==
    \A i \in 1..Len(returned) :
        ToldNotLimited(returned[i]) => returned[i].allowed

\* C29 as amended: a task that is_rate_limited() answered false gets true from
\* its next record_action() when no other call pushed an instant on that
\* policy between the two
C29_NotLimitedThenAllowedWhenAlone ==
    \A i \in 1..Len(returned) :
        (ToldNotLimited(returned[i]) /\ NoPushBetween(returned[i])) =>
            returned[i].allowed

\* C29 witness: with one action recorded under a limit of two, the second task
\* is told it is not limited and its record_action(), the next push, returns
\* true at the limit
C29_Witness ==
    /\ policy.max_actions_per_hour = 2
    /\ Len(returned) = 2
    /\ returned[1].task = 1
    /\ returned[2].task = 2
    /\ returned[2].asked = Some([answer |-> FALSE, pushes |-> 1])
    /\ returned[2].pushes = 2
    /\ returned[2].count = 2
    /\ returned[2].allowed

\* C30: execute dispatches a screen action only when the policy permits it:
\* under ReadOnly it returns an error, records nothing and dispatches
\* nothing, and when the action it recorded is over max_actions_per_hour it
\* dispatches nothing either
C30_ExecuteOnlyWhenPermitted ==
    /\ policy.autonomy = "ReadOnly" => calls = 0
    /\ op = "execute" =>
           /\ policy.autonomy = "ReadOnly" =>
                  (ret.dispatched = "none" /\ ret.error # "")
           /\ Len(actions) > policy.max_actions_per_hour =>
                  ret.dispatched = "none"

\* The ReadOnly half of C30 alone
ReadOnlyExecutesNothing ==
    /\ policy.autonomy = "ReadOnly" => calls = 0
    /\ (op = "execute" /\ policy.autonomy = "ReadOnly") =>
           (ret.dispatched = "none" /\ ret.error # "")

Spec == Init /\ [][Next]_vars

PathSpec == PathInit /\ [][PathNext]_vars

TrackerSpec == TrackerInit /\ [][TrackerNext]_vars

CloneSpec == TrackerInit /\ [][CloneNext]_vars

ConcurrentSpec == ConcurrentInit /\ [][ConcurrentNext]_vars

LimitedSpec == ConcurrentInit /\ [][LimitedNext]_vars

PoisonSpec == ConcurrentInit /\ [][PoisonNext]_vars

ToolSpec == ToolInit /\ [][ToolNext]_vars

====
